---- MODULE Spec2Model ----
(***************************************************************************)
(* Model of the organizations route (app/routes/organizations.tsx), its    *)
(* index wrapper and the pagination resource route                         *)
(* (app/routes/resources.organizations.ts).                                *)
(*                                                                         *)
(* Strings are sequences of one-character strings, so that number          *)
(* formatting (toString) and parsing (parseInt) are computed rather than   *)
(* assumed.  JavaScript objects are records; "field in object" is          *)
(* membership in the record's DOMAIN.                                      *)
(***************************************************************************)
EXTENDS Integers, Sequences, FiniteSets, TLC

\* ---------------------------------------------------------------- bounds
\* Largest number of rows in the organizations table.
MaxTotal == 21
\* Longest form-field text an arbitrary client sends.
MaxLen == 2
\* Largest page number the page component is driven to.
MaxPage == 4
\* Largest number of page-change submissions in one behaviour.
MaxSubmits == 3

\* ------------------------------------------------------ program constants
ITEMS_PER_PAGE == 10
DefaultLimit == 10
DefaultOffset == 0

\* ---------------------------------------------------------------- strings
Digits == <<"0", "1", "2", "3", "4", "5", "6", "7", "8", "9">>

IsDigit(c) == \E i \in 1..10 : Digits[i] = c

DigitValue(c) == (CHOOSE i \in 1..10 : Digits[i] = c) - 1

\* Characters an arbitrary client puts in a form field.
Chars == {"0", "1", "a", "-", " "}

Strings == UNION {[1..n -> Chars] : n \in 0..MaxLen}

\* Number.prototype.toString() of an integer.
RECURSIVE NatToString(_)
NatToString(n) ==
    IF n < 10 THEN <<Digits[n + 1]>>
    ELSE NatToString(n \div 10) \o <<Digits[(n % 10) + 1]>>

toString(n) == IF n < 0 THEN <<"-">> \o NatToString(-n) ELSE NatToString(n)

\* The result of parseInt: NaN or an integer.
NaN == [isNaN |-> TRUE, value |-> 0]
Num(n) == [isNaN |-> FALSE, value |-> n]

RECURSIVE SkipWhiteSpace(_)
SkipWhiteSpace(s) ==
    IF s # <<>> /\ Head(s) = " " THEN SkipWhiteSpace(Tail(s)) ELSE s

\* Value of the longest prefix of decimal digits of s, continuing from acc.
RECURSIVE DigitsPrefix(_, _)
DigitsPrefix(s, acc) ==
    IF s # <<>> /\ IsDigit(Head(s))
    THEN DigitsPrefix(Tail(s), acc * 10 + DigitValue(Head(s)))
    ELSE acc

\* parseInt(string) with no radix: leading white space is skipped, one sign is
\* accepted, then the longest run of decimal digits is read; anything after
\* it is ignored; no digit at all gives NaN.
ParseIntString(str) ==
    LET s    == SkipWhiteSpace(str)
        neg  == s # <<>> /\ Head(s) = "-"
        body == IF neg THEN Tail(s) ELSE s
    IN  IF body = <<>> \/ ~IsDigit(Head(body)) THEN NaN
        ELSE Num((IF neg THEN -1 ELSE 1) * DigitsPrefix(body, 0))

\* A form field as FormData.get returns it: null when the field is absent.
Null == [present |-> FALSE, text |-> <<>>]
Text(s) == [present |-> TRUE, text |-> s]

FormValues == {Null} \cup {Text(s) : s \in Strings}

\* parseInt(value as string): the cast is erased at run time, so a null is
\* converted to the string "null" before it is parsed.
parseInt(v) ==
    ParseIntString(IF v.present THEN v.text ELSE <<"n", "u", "l", "l">>)

\* JavaScript's (number || fallback): NaN and 0 are falsy.
OrDefault(r, fallback) == IF r.isNaN \/ r.value = 0 THEN fallback ELSE r.value

\* ---------------------------------------------------------- executeQuery
\* A promise: pending, fulfilled with a value, or rejected with a reason.
Pending == [kind |-> "pending"]
Fulfilled(v) == [kind |-> "fulfilled", value |-> v]
Rejected(r) == [kind |-> "rejected", reason |-> r]

\* What the query executor does with one statement: it answers with rows,
\* answers with its error flag set, or throws (an Error, or some other value).
QueryOutcomes == {"ok", "isError", "throwError", "throwOther"}

QueryError(sql) == [isError |-> TRUE, errorMessage |-> <<sql, "failed">>]
ThrownError(sql) == [isErrorObject |-> TRUE, message |-> <<sql, "threw">>]
ThrownOther == [isErrorObject |-> FALSE]

Settle(sql, outcome, rows) ==
    CASE outcome = "ok" -> Fulfilled([isError |-> FALSE, data |-> rows])
      [] outcome = "isError" -> Fulfilled(QueryError(sql))
      [] outcome = "throwError" -> Rejected(ThrownError(sql))
      [] OTHER -> Rejected(ThrownOther)

Min(a, b) == IF a < b THEN a ELSE b

\* SELECT ... FROM organizations ORDER BY organization_name LIMIT $1 OFFSET $2
\* over a table of `total` rows, a row standing for its rank in name order.
\* The store refuses a negative LIMIT or OFFSET.
organizationsQuery(params, total, outcome) ==
    LET limit  == ParseIntString(params[1]).value
        offset == ParseIntString(params[2]).value
        n      == IF offset >= total THEN 0 ELSE Min(limit, total - offset)
    IN  IF (limit < 0 \/ offset < 0) /\ outcome = "ok"
        THEN Settle("organizationsQuery", "isError", <<>>)
        ELSE Settle("organizationsQuery", outcome, [i \in 1..n |-> offset + i])

\* SELECT COUNT(*) as total FROM organizations
organizationsCountQuery(total, outcome) ==
    Settle("organizationsCountQuery", outcome, <<[total |-> total]>>)

\* ------------------------------------------------------- resource action
Methods == {"GET", "POST", "PUT"}

Request(method, limit, offset) ==
    [method |-> method, url |-> "/resources/organizations", malformed |-> FALSE,
     form |-> [limit |-> limit, offset |-> offset]]

\* A request whose body is no form: request.formData() throws on it.
MalformedRequest(method) ==
    [method |-> method, url |-> "/resources/organizations", malformed |-> TRUE,
     form |-> [limit |-> Null, offset |-> Null]]

\* The requests an arbitrary client sends.  The action never looks at the
\* form of a request that is not a POST, so those carry one value in both
\* fields.
HttpRequests ==
    {Request("POST", limit, offset) : limit \in FormValues, offset \in FormValues}
    \cup {Request(method, v, v) : method \in Methods \ {"POST"}, v \in FormValues}
    \cup {MalformedRequest(method) : method \in Methods}

\* What one run of the resource action produced: the response (status and
\* JSON body) and what it did on the way (whether request.formData() was
\* called, the queries it executed with their results, console.error).
Response(status, body, formRead, queries, logged) ==
    [status |-> status, body |-> body, formRead |-> formRead,
     queries |-> queries, logged |-> logged]

MethodNotAllowed ==
    Response(405, [error |-> "Method not allowed"], FALSE, <<>>, FALSE)

FailedToFetch(queries) ==
    Response(500, [error |-> "Failed to fetch organizations"], TRUE, queries, TRUE)

\* const limit = parseInt(formData.get('limit') as string) || 10
ParseLimit(formData) == OrDefault(parseInt(formData.limit), DefaultLimit)

\* A slip: the offset is read from the limit field.
ParseOffsetFromLimit(formData) == OrDefault(parseInt(formData.limit), DefaultOffset)

\* const offset = parseInt(formData.get('offset') as string) || 0
ParseOffset(formData) == OrDefault(parseInt(formData.offset), DefaultOffset)

\* A slip: a query result that carries the error flag is answered as an
\* empty page.
QueryResponseSwallowsError(organizations, ran) ==
    IF organizations.kind = "rejected" THEN FailedToFetch(ran)
    ELSE IF organizations.value.isError
    THEN Response(200, [data |-> <<>>, isError |-> FALSE], TRUE, ran, FALSE)
    ELSE Response(200, [data |-> organizations.value.data, isError |-> FALSE],
                  TRUE, ran, FALSE)

\* What the action answers once the query has settled; ran is the log of the
\* query it executed.
QueryResponse(organizations, ran) ==
    IF organizations.kind = "rejected" THEN FailedToFetch(ran)
    ELSE IF organizations.value.isError
    THEN Response(200, organizations.value, TRUE, ran, FALSE)
    ELSE Response(200, [data |-> organizations.value.data, isError |-> FALSE],
                  TRUE, ran, FALSE)

\* The try block of the action.
HandlePost(request, outcome, total) ==
    IF request.malformed THEN FailedToFetch(<<>>)
    ELSE
      LET params == <<toString(ParseLimit(request.form)),
                      toString(ParseOffset(request.form))>>
          organizations == organizationsQuery(params, total, outcome)
      IN  QueryResponse(organizations,
                        <<[params |-> params, result |-> organizations]>>)

\* A slip: only GET is turned away.
actionRejectsOnlyGet(request, outcome, total) ==
    IF request.method = "GET" THEN MethodNotAllowed
    ELSE HandlePost(request, outcome, total)

\* action({ request }): outcome is what the query executor does, total how
\* many rows the table has.
action(request, outcome, total) ==
    IF request.method # "POST" THEN MethodNotAllowed
    ELSE HandlePost(request, outcome, total)

\* ------------------------------------------------------------------ state
VARIABLES
    dbTotal,       \* rows in the organizations table
    loaderPc,      \* "init", "running" (awaiting Promise.all) or "done"
    organizationsPromise,  \* the loader's first executeQuery call
    countPromise,          \* the loader's second executeQuery call
    loaderData,    \* what the loader returned (useLoaderData)
    currentPage,   \* useState(1)
    fetcherState,  \* fetcher.state
    fetcherRequest,\* the submission the fetcher has in flight
    fetcherData,   \* fetcher.data
    submissions,   \* number of fetcher.submit calls so far
    calledWith,    \* the page the handler was last called with
    onlyClicks,    \* every page change so far came from an enabled button
    httpRequest,   \* a request some client sent to /resources/organizations
    httpResponse   \* what the resource action made of httpRequest

vars == <<dbTotal, loaderPc, organizationsPromise, countPromise, loaderData,
          currentPage, fetcherState, fetcherRequest, fetcherData, submissions,
          calledWith, onlyClicks, httpRequest, httpResponse>>

loaderVars == <<loaderPc, organizationsPromise, countPromise, loaderData>>
pageVars == <<currentPage, fetcherState, fetcherRequest, fetcherData,
              submissions, calledWith, onlyClicks>>
httpVars == <<httpRequest, httpResponse>>

NoData == [none |-> TRUE]
NoRequest == [method |-> "none"]
NoResponse == [status |-> 0]

\* ----------------------------------------------------------------- loader
\* catch (error): error instanceof Error ? error.message : '...'
LoaderFailure(reason) ==
    [error |-> IF reason.isErrorObject THEN reason.message
               ELSE <<"Failed to load organizations data">>]

\* A slip: the two queries are awaited as with Promise.allSettled, and a
\* count query that threw leaves a success object without a usable count.
loaderReturnSettled(organizations, organizationsCount) ==
    IF organizations.kind = "rejected" THEN LoaderFailure(organizations.reason)
    ELSE IF organizations.kind = "fulfilled" /\ organizationsCount.kind # "pending"
    THEN [organizations |-> organizations.value,
          organizationsCount |->
              IF organizationsCount.kind = "fulfilled" THEN organizationsCount.value
              ELSE QueryError("organizationsCountQuery")]
    ELSE NoData

\* The loader's return value once Promise.all has settled, given the two
\* promises: Promise.all rejects with the first rejection and fulfils when
\* both have fulfilled; NoData while it is still pending.
loaderReturn(organizations, organizationsCount) ==
    IF organizations.kind = "rejected" THEN LoaderFailure(organizations.reason)
    ELSE IF organizationsCount.kind = "rejected"
    THEN LoaderFailure(organizationsCount.reason)
    ELSE IF organizations.kind = "fulfilled" /\ organizationsCount.kind = "fulfilled"
    THEN [organizations |-> organizations.value,
          organizationsCount |-> organizationsCount.value]
    ELSE NoData

\* loader() up to its await: both queries are started.
LoaderStart ==
    /\ loaderPc = "init"
    /\ loaderPc' = "running"
    /\ UNCHANGED <<dbTotal, organizationsPromise, countPromise, loaderData>>
    /\ UNCHANGED pageVars /\ UNCHANGED httpVars

\* One of the two promises settles; if that settles Promise.all, the loader
\* returns in the same step.  A promise that settles after the loader has
\* returned changes nothing else.
LoaderResume(organizations, organizationsCount) ==
    IF loaderPc = "running" /\ loaderReturn(organizations, organizationsCount) # NoData
    THEN /\ loaderPc' = "done"
         /\ loaderData' = loaderReturn(organizations, organizationsCount)
    ELSE UNCHANGED <<loaderPc, loaderData>>

OrganizationsQuerySettles(outcome) ==
    /\ loaderPc # "init"
    /\ organizationsPromise = Pending
    /\ organizationsPromise' =
         organizationsQuery(<<toString(ITEMS_PER_PAGE), <<"0">>>>, dbTotal, outcome)
    /\ LoaderResume(organizationsPromise', countPromise)
    /\ UNCHANGED <<dbTotal, countPromise>>
    /\ UNCHANGED pageVars /\ UNCHANGED httpVars

CountQuerySettles(outcome) ==
    /\ loaderPc # "init"
    /\ countPromise = Pending
    /\ countPromise' = organizationsCountQuery(dbTotal, outcome)
    /\ LoaderResume(organizationsPromise, countPromise')
    /\ UNCHANGED <<dbTotal, organizationsPromise>>
    /\ UNCHANGED pageVars /\ UNCHANGED httpVars

\* --------------------------------------------------------- page component
\* A slip: once a page has been fetched, the count is taken from its rows.
OrganizationsCountOfRows(data) ==
    IF fetcherData # NoData /\ "data" \in DOMAIN fetcherData
    THEN Len(fetcherData.data)
    ELSE LET result == data.organizationsCount
         IN  IF "data" \in DOMAIN result /\ Len(result.data) > 0
             THEN result.data[1].total
             ELSE 0

\* loaderData.organizationsCount.data?.[0]?.total || 0
OrganizationsCount(data) ==
    LET result == data.organizationsCount
    IN  IF "data" \in DOMAIN result /\ Len(result.data) > 0
        THEN result.data[1].total
        ELSE 0

\* A slip: Math.floor in place of Math.ceil.
Floor(count, size) == count \div size

\* Math.ceil(count / ITEMS_PER_PAGE) for a count that is not negative.
Ceil(count, size) == (count \div size) + (IF count % size = 0 THEN 0 ELSE 1)

\* const totalPages = organizationsCount > 0 ? Math.ceil(...) : 0
TotalPages(organizationsCount) ==
    IF organizationsCount > 0 THEN Ceil(organizationsCount, ITEMS_PER_PAGE) ELSE 0

\* isLoading={fetcher.state === 'submitting'}
IsLoading == fetcherState = "submitting"

\* A slip: the button ignores the request in flight.
PreviousDisabledAtFirstPage(page, isLoading) == page = 1

\* disabled={currentPage === 1 || isLoading}
PreviousDisabled(page, isLoading) == page = 1 \/ isLoading

\* disabled={currentPage === totalPages || isLoading}
NextDisabled(page, totalPages, isLoading) == page = totalPages \/ isLoading

\* queryData={fetcher.data || loaderData.organizations}
QueryData == IF fetcherData # NoData THEN fetcherData ELSE loaderData.organizations

\* The generic wrapper: it shows the error of a query result that carries
\* one, and otherwise renders the result's rows.
WithErrorHandling(queryData) ==
    IF "error" \in DOMAIN queryData THEN "error"
    ELSE IF queryData.isError THEN "error"
    ELSE "table"

\* What the route shows: nothing before the loader has returned, the error
\* component for a failed load, and otherwise what the wrapper makes of the
\* current query result.
View ==
    IF loaderPc # "done" THEN "none"
    ELSE IF "error" \in DOMAIN loaderData THEN "error"
    ELSE WithErrorHandling(QueryData)

\* The page component is mounted: the loader returned its success object.
Mounted == loaderPc = "done" /\ "error" \notin DOMAIN loaderData

\* A slip: pages counted from zero.
PageOffsetFromZero(page) == page * ITEMS_PER_PAGE

\* const offset = (page - 1) * ITEMS_PER_PAGE
PageOffset(page) == (page - 1) * ITEMS_PER_PAGE

\* handlePageChange(page).  The fetcher holds one submission: a new
\* fetcher.submit supersedes the one in flight, and fetcher.data keeps the last
\* answer until the next one arrives.
handlePageChange(page) ==
    /\ currentPage' = page
    /\ fetcherRequest' = Request("POST", Text(toString(ITEMS_PER_PAGE)),
                                 Text(toString(PageOffset(page))))
    /\ fetcherState' = "submitting"
    /\ submissions' = submissions + 1
    /\ UNCHANGED <<fetcherData, dbTotal>>
    /\ UNCHANGED loaderVars /\ UNCHANGED httpVars

Pages == 0..MaxPage

\* onClick={() => onPageChange(currentPage - 1)} on a button that is enabled
ClickPrevious ==
    /\ View = "table"
    /\ ~PreviousDisabled(currentPage, IsLoading)
    /\ currentPage - 1 \in Pages
    /\ submissions < MaxSubmits
    /\ handlePageChange(currentPage - 1)
    /\ calledWith' = currentPage - 1
    /\ UNCHANGED onlyClicks

\* onClick={() => onPageChange(currentPage + 1)} on a button that is enabled
ClickNext ==
    /\ View = "table"
    /\ ~NextDisabled(currentPage, TotalPages(OrganizationsCount(loaderData)), IsLoading)
    /\ currentPage + 1 \in Pages
    /\ submissions < MaxSubmits
    /\ handlePageChange(currentPage + 1)
    /\ calledWith' = currentPage + 1
    /\ UNCHANGED onlyClicks

\* The handler called with any page, not through the buttons.
CallPageChange(page) ==
    /\ Mounted
    /\ submissions < MaxSubmits
    /\ handlePageChange(page)
    /\ calledWith' = page
    /\ onlyClicks' = FALSE

\* fetcher.data once the resource action has answered the submission.
FetcherData(response) == response.body

\* The resource action answers the fetcher's submission and the fetcher
\* takes the body of the response as its data.
FetcherResponse(outcome) ==
    /\ fetcherState = "submitting"
    /\ fetcherData' = FetcherData(action(fetcherRequest, outcome, dbTotal))
    /\ fetcherState' = "idle"
    /\ fetcherRequest' = NoRequest
    /\ UNCHANGED <<currentPage, submissions, calledWith, onlyClicks, dbTotal>>
    /\ UNCHANGED loaderVars /\ UNCHANGED httpVars

\* ------------------------------------------------- any client of the route
HttpSend ==
    /\ httpRequest = NoRequest
    /\ \E request \in HttpRequests : httpRequest' = request
    /\ UNCHANGED <<httpResponse, dbTotal>>
    /\ UNCHANGED loaderVars /\ UNCHANGED pageVars

HttpHandle(outcome) ==
    /\ httpRequest # NoRequest
    /\ httpResponse = NoResponse
    /\ httpResponse' = action(httpRequest, outcome, dbTotal)
    /\ UNCHANGED <<httpRequest, dbTotal>>
    /\ UNCHANGED loaderVars /\ UNCHANGED pageVars

HttpClose ==
    /\ httpResponse # NoResponse
    /\ httpRequest' = NoRequest
    /\ httpResponse' = NoResponse
    /\ UNCHANGED dbTotal
    /\ UNCHANGED loaderVars /\ UNCHANGED pageVars

\* ---------------------------------------------------------- specifications
Init ==
    /\ dbTotal \in 0..MaxTotal
    /\ loaderPc = "init"
    /\ organizationsPromise = Pending
    /\ countPromise = Pending
    /\ loaderData = NoData
    /\ currentPage = 1
    /\ fetcherState = "idle"
    /\ fetcherRequest = NoRequest
    /\ fetcherData = NoData
    /\ submissions = 0
    /\ calledWith = 1
    /\ onlyClicks = TRUE
    /\ httpRequest = NoRequest
    /\ httpResponse = NoResponse

\* The page: its loader, the table's buttons and the fetcher's round trips.
Next ==
    \/ LoaderStart
    \/ \E outcome \in QueryOutcomes : OrganizationsQuerySettles(outcome)
    \/ \E outcome \in QueryOutcomes : CountQuerySettles(outcome)
    \/ ClickPrevious
    \/ ClickNext
    \/ \E page \in Pages : CallPageChange(page)
    \/ \E outcome \in QueryOutcomes : FetcherResponse(outcome)

Spec == Init /\ [][Next]_vars

\* The resource route on its own, called by any client with any form.
NextAction ==
    \/ HttpSend
    \/ \E outcome \in QueryOutcomes : HttpHandle(outcome)
    \/ HttpClose

\* The route is exercised over an empty table and over a full one.
InitAction == Init /\ dbTotal \in {0, MaxTotal}

SpecAction == InitAction /\ [][NextAction]_vars

\* ------------------------------------------------------------ properties
\* The organizationsCount and totalPages the table is rendered with.
TableCount == OrganizationsCount(loaderData)
TableTotalPages == TotalPages(TableCount)

Max(a, b) == IF a > b THEN a ELSE b

\* The resource action has answered a POST whose body was a form.
PostHandled ==
    /\ httpResponse # NoResponse
    /\ httpRequest.method = "POST"
    /\ ~httpRequest.malformed

\* C1 (as stated): whenever the table is shown, Previous is disabled exactly
\* when the current page is 1 and Next exactly when the current page is the
\* total number of pages.
C1_DisabledExactlyAtEnds ==
    View = "table" =>
      /\ PreviousDisabled(currentPage, IsLoading) <=> currentPage = 1
      /\ NextDisabled(currentPage, TableTotalPages, IsLoading)
           <=> currentPage = TableTotalPages

\* C1 (amended): whenever the table is shown, Previous is disabled exactly
\* when the current page is 1 or a page-change request is in flight, and Next
\* exactly when the current page is the total number of pages or a
\* page-change request is in flight.
C1_DisabledAtEndsOrInFlight ==
    View = "table" =>
      /\ PreviousDisabled(currentPage, IsLoading)
           <=> (currentPage = 1 \/ fetcherState = "submitting")
      /\ NextDisabled(currentPage, TableTotalPages, IsLoading)
           <=> (currentPage = TableTotalPages \/ fetcherState = "submitting")

\* A request is in flight from a page that is neither the first nor the last.
C1_Witness ==
    /\ View = "table"
    /\ fetcherState = "submitting"
    /\ currentPage = 2
    /\ TableTotalPages = 3
    /\ PreviousDisabled(currentPage, IsLoading)
    /\ NextDisabled(currentPage, TableTotalPages, IsLoading)

\* C2: once the loader has returned, if either initial query threw, its
\* return value has the error field alone, carrying the thrown Error's
\* message (or the fixed text for a thrown non-Error); and it has the
\* organizations and organizationsCount fields only when both queries
\* completed without throwing, and then it carries their two results.
C2_LoaderAllOrError ==
    loaderPc = "done" =>
      /\ (organizationsPromise.kind = "rejected" \/ countPromise.kind = "rejected")
           => /\ DOMAIN loaderData = {"error"}
              /\ \E p \in {organizationsPromise, countPromise} :
                   /\ p.kind = "rejected"
                   /\ loaderData.error =
                        IF p.reason.isErrorObject THEN p.reason.message
                        ELSE <<"Failed to load organizations data">>
      /\ (DOMAIN loaderData \cap {"organizations", "organizationsCount"} # {})
           => /\ organizationsPromise.kind = "fulfilled"
              /\ countPromise.kind = "fulfilled"
              /\ loaderData = [organizations |-> organizationsPromise.value,
                               organizationsCount |-> countPromise.value]

\* The rows query answered and the count query threw: the loader returned
\* the error object.
C2_Witness ==
    /\ loaderPc = "done"
    /\ organizationsPromise.kind = "fulfilled"
    /\ ~organizationsPromise.value.isError
    /\ countPromise.kind = "rejected"
    /\ DOMAIN loaderData = {"error"}

\* C3: the answer to a request whose method is not POST has status 405 and
\* body {error: "Method not allowed"}, and the action has neither read the
\* form nor executed a query.
C3_MethodNotAllowed ==
    (httpResponse # NoResponse /\ httpRequest.method # "POST") =>
      /\ httpResponse.status = 405
      /\ httpResponse.body = [error |-> "Method not allowed"]
      /\ ~httpResponse.formRead
      /\ httpResponse.queries = <<>>

\* A PUT that carries a well-formed form has been turned away.
C3_Witness ==
    /\ httpResponse # NoResponse
    /\ httpRequest.method = "PUT"
    /\ ~httpRequest.malformed
    /\ httpRequest.form.limit = Text(<<"1">>)
    /\ httpResponse.status = 405

\* The text is an integer in decimal notation, possibly signed and possibly
\* surrounded by white space.
IsIntegerText(s) ==
    \E i \in 1..Len(s), j \in 1..Len(s) :
      /\ i <= j
      /\ \A k \in 1..(i - 1) : s[k] = " "
      /\ \A k \in (j + 1)..Len(s) : s[k] = " "
      /\ \A k \in i..j : IsDigit(s[k]) \/ (k = i /\ i < j /\ s[k] = "-")

\* The field is missing or non-numeric.
NonNumeric(v) == ~v.present \/ ~IsIntegerText(v.text)

\* The text starts, after white space and at most one sign, with a digit.
HasLeadingInteger(s) ==
    \E i \in 1..Len(s) :
      /\ IsDigit(s[i])
      /\ \A k \in 1..(i - 1) : s[k] = " " \/ (k = i - 1 /\ s[k] = "-")

\* The field is missing or parseInt reads no number from it.
Unparsable(v) == ~v.present \/ ~HasLeadingInteger(v.text)

C5_ResponseFollowsQuery ==
    (httpResponse # NoResponse /\ httpRequest.method = "POST") =>
      LET ran == httpResponse.queries
          generic ==
            /\ httpResponse.status = 500
            /\ httpResponse.body = [error |-> "Failed to fetch organizations"]
      IN  /\ httpRequest.malformed => (ran = <<>> /\ generic)
          /\ ~httpRequest.malformed =>
               /\ Len(ran) = 1
               /\ ran[1].result.kind = "rejected" => generic
               /\ ran[1].result.kind = "fulfilled" =>
                    /\ httpResponse.status = 200
                    /\ IF ran[1].result.value.isError
                       THEN httpResponse.body = ran[1].result.value
                       ELSE /\ DOMAIN httpResponse.body = {"data", "isError"}
                            /\ httpResponse.body.isError = FALSE
                            /\ httpResponse.body.data = ran[1].result.value.data

\* A query result with the error flag has been forwarded.
C5_Witness ==
    /\ PostHandled
    /\ httpResponse.status = 200
    /\ "errorMessage" \in DOMAIN httpResponse.body
    /\ httpResponse.body.isError

\* C6: on the initial load the table is shown only when both initial queries
\* succeeded (neither threw, neither answered with its error flag set).
C6_NoPartialResult ==
    (View = "table" /\ submissions = 0) =>
      /\ organizationsPromise.kind = "fulfilled"
      /\ ~organizationsPromise.value.isError
      /\ countPromise.kind = "fulfilled"
      /\ ~countPromise.value.isError

\* C7: a call of the page-change handler with page p sets the current page
\* to p while the response is still outstanding and submits one POST to
\* /resources/organizations with limit 10 and offset (p - 1) * 10; page 1
\* asks for offset 0 and page 3 for offset 20.
C7_PageChangeSubmits ==
    [][submissions' # submissions =>
         /\ submissions' = submissions + 1
         /\ currentPage' = calledWith'
         /\ fetcherState' = "submitting"
         /\ fetcherData' = fetcherData
         /\ fetcherRequest'.method = "POST"
         /\ fetcherRequest'.url = "/resources/organizations"
         /\ parseInt(fetcherRequest'.form.limit) = Num(10)
         /\ parseInt(fetcherRequest'.form.offset) = Num((calledWith' - 1) * 10)
         /\ calledWith' = 1 => fetcherRequest'.form.offset = Text(<<"0">>)
         /\ calledWith' = 3 => fetcherRequest'.form.offset = Text(<<"2", "0">>)
      ]_vars

\* The handler was called with page 3 and its request is in flight.
C7_Witness ==
    /\ fetcherState = "submitting"
    /\ calledWith = 3
    /\ currentPage = 3
    /\ fetcherRequest.form.offset = Text(<<"2", "0">>)

\* C8: the table's total number of pages is the least integer n with
\* n * 10 >= total count, and is 0 for a total count of 0.
C8_TotalPagesIsCeiling ==
    Mounted =>
      /\ TableCount >= 0
      /\ TableTotalPages * 10 >= TableCount
      /\ (TableTotalPages - 1) * 10 < TableCount
      /\ TableCount = 0 => TableTotalPages = 0

\* A count that is no multiple of the page size.
C8_Witness ==
    /\ Mounted
    /\ TableCount = 11
    /\ TableTotalPages = 2

\* C9: while every page change has come from an enabled button, the current
\* page is at least 1 and at most max(1, total pages).
C9_PageInRange ==
    (Mounted /\ onlyClicks) =>
      /\ currentPage >= 1
      /\ currentPage <= Max(1, TableTotalPages)

====
